---- MODULE Spec2Model ----
(***************************************************************************)
(* Model of the kanban persistence backend (src/app.py): one JSON document *)
(* kept in a remote content store (GitHub contents API) and in a local     *)
(* file, served through the Flask handlers of app.py.                      *)
(*                                                                         *)
(* JSON values are tagged tuples, texts are token sequences, so that       *)
(* json.dumps / json.load are modelled by what they do: a text may fail    *)
(* to parse, and a parsed value may differ from the one written.           *)
(***************************************************************************)
EXTENDS Integers, Sequences, FiniteSets, TLC

VARIABLES configured, remote, localFile, last, lastWrite, inflight, localWriter

vars == <<configured, remote, localFile, last, lastWrite, inflight, localWriter>>

(***************************************************************************)
(* Bounds of the model.                                                    *)
(***************************************************************************)
\* number of distinct board documents a client may POST
MaxDocs == 2

(***************************************************************************)
(* Python / JSON values.                                                   *)
(***************************************************************************)
None == <<"null">>
Bool(b) == <<"bool", b>>
Num(n) == <<"num", n>>
Str(s) == <<"str", s>>
List(xs) == <<"list", xs>>
\* a dict is the sequence of its <<key, value>> items, in insertion order
Dict(kv) == <<"dict", kv>>

IsDict(v) == v[1] = "dict"

Keys(v) == {v[2][i][1] : i \in 1..Len(v[2])}

\* `key in d` for a dict d
HasKey(v, key) == IsDict(v) /\ key \in Keys(v)

\* d[key] for a key the dict holds
Item(v, key) == v[2][CHOOSE i \in 1..Len(v[2]) : v[2][i][1] = key][2]

\* d[key] = val as json's object parsing does it: a repeated key keeps its
\* place and takes the later value
SetItem(kv, key, val) ==
    IF \E i \in 1..Len(kv) : kv[i][1] = key
    THEN [i \in 1..Len(kv) |-> IF kv[i][1] = key THEN <<key, val>> ELSE kv[i]]
    ELSE Append(kv, <<key, val>>)

\* bool(v): Python truthiness of a JSON value
Truthy(v) ==
    CASE v[1] = "null" -> FALSE
      [] v[1] = "bool" -> v[2]
      [] v[1] = "num"  -> v[2] # 0
      [] v[1] = "str"  -> v[2] # ""
      [] v[1] = "list" -> Len(v[2]) > 0
      [] v[1] = "dict" -> Len(v[2]) > 0

\* whether `x in v` is defined: numbers, booleans and None raise TypeError
SupportsIn(v) == v[1] \in {"str", "list", "dict"}

\* 'columns' in v, for a v that supports it: a key of a dict, an element of a
\* list, a substring of a string (the model's only string holding it is
\* "columns" itself)
ContainsColumns(v) ==
    CASE v[1] = "dict" -> "columns" \in Keys(v)
      [] v[1] = "list" -> \E i \in 1..Len(v[2]) : v[2][i] = Str("columns")
      [] v[1] = "str"  -> v[2] = "columns"

\* whether len(v) is defined
Sized(v) == v[1] \in {"str", "list", "dict"}

(***************************************************************************)
(* json.dumps and json.loads over token sequences.                         *)
(***************************************************************************)
P(c) == <<"p", c>>
Lit(c) == <<"lit", c>>

IsP(tok, c) == tok[1] = "p" /\ tok[2] = c

RECURSIVE Dumps(_)
RECURSIVE DumpsElems(_, _)
RECURSIVE DumpsItems(_, _)

\* the elements xs[i..] of a list, comma separated
DumpsElems(xs, i) ==
    IF i > Len(xs) THEN <<>>
    ELSE (IF i > 1 THEN <<P(",")>> ELSE <<>>) \o Dumps(xs[i]) \o DumpsElems(xs, i + 1)

\* the items kv[i..] of a dict, comma separated
DumpsItems(kv, i) ==
    IF i > Len(kv) THEN <<>>
    ELSE (IF i > 1 THEN <<P(",")>> ELSE <<>>)
         \o <<Str(kv[i][1]), P(":")>> \o Dumps(kv[i][2]) \o DumpsItems(kv, i + 1)

Dumps(v) ==
    CASE v[1] = "null" -> <<Lit("null")>>
      [] v[1] = "bool" -> <<Lit(IF v[2] THEN "true" ELSE "false")>>
      [] v[1] = "num"  -> <<v>>
      [] v[1] = "str"  -> <<v>>
      [] v[1] = "list" -> <<P("[")>> \o DumpsElems(v[2], 1) \o <<P("]")>>
      [] v[1] = "dict" -> <<P("{")>> \o DumpsItems(v[2], 1) \o <<P("}")>>

\* result of a parse: ok, the value, the index after it
Parsed(v, n) == [ok |-> TRUE, v |-> v, n |-> n]
ParseError == [ok |-> FALSE, v |-> None, n |-> 0]

RECURSIVE ParseValue(_, _)
RECURSIVE ParseElems(_, _, _)
RECURSIVE ParseItems(_, _, _)

\* after the element r of a list: a comma and the next element, or the end
AfterElem(t, r, acc) ==
    IF ~r.ok \/ r.n > Len(t) THEN ParseError
    ELSE IF IsP(t[r.n], ",") THEN ParseElems(t, r.n + 1, Append(acc, r.v))
    ELSE IF IsP(t[r.n], "]") THEN Parsed(List(Append(acc, r.v)), r.n + 1)
    ELSE ParseError

ParseElems(t, i, acc) == AfterElem(t, ParseValue(t, i), acc)

\* after the value r of the item named key: a comma and the next item, or
\* the end
AfterItem(t, key, r, acc) ==
    IF ~r.ok \/ r.n > Len(t) THEN ParseError
    ELSE IF IsP(t[r.n], ",") THEN ParseItems(t, r.n + 1, SetItem(acc, key, r.v))
    ELSE IF IsP(t[r.n], "}") THEN Parsed(Dict(SetItem(acc, key, r.v)), r.n + 1)
    ELSE ParseError

ParseItems(t, i, acc) ==
    IF i + 1 > Len(t) \/ t[i][1] # "str" \/ ~IsP(t[i + 1], ":") THEN ParseError
    ELSE AfterItem(t, t[i][2], ParseValue(t, i + 2), acc)

ParseValue(t, i) ==
    IF i > Len(t) THEN ParseError
    ELSE LET tok == t[i] IN
         CASE tok[1] = "num" -> Parsed(tok, i + 1)
           [] tok[1] = "str" -> Parsed(tok, i + 1)
           [] tok[1] = "lit" ->
                (CASE tok[2] = "null"  -> Parsed(None, i + 1)
                   [] tok[2] = "true"  -> Parsed(Bool(TRUE), i + 1)
                   [] tok[2] = "false" -> Parsed(Bool(FALSE), i + 1)
                   [] OTHER -> ParseError)
           [] IsP(tok, "[") ->
                IF i + 1 <= Len(t) /\ IsP(t[i + 1], "]")
                THEN Parsed(List(<<>>), i + 2)
                ELSE ParseElems(t, i + 1, <<>>)
           [] IsP(tok, "{") ->
                IF i + 1 <= Len(t) /\ IsP(t[i + 1], "}")
                THEN Parsed(Dict(<<>>), i + 2)
                ELSE ParseItems(t, i + 1, <<>>)
           [] OTHER -> ParseError

\* a parse that leaves text behind is an error
WholeText(t, r) == IF r.ok /\ r.n = Len(t) + 1 THEN r ELSE ParseError

\* json.loads(t): the value, or ok = FALSE for json.JSONDecodeError
Loads(t) == WholeText(t, ParseValue(t, 1))

\* base64.b64encode / b64decode of a text
B64Encode(t) == <<"b64", t>>
B64Decode(e) == e[2]

(***************************************************************************)
(* Documents.                                                              *)
(***************************************************************************)
Tasks(major) == Dict(<< <<"major", List(major)>>, <<"minor", List(<<>>)>> >>)

Column(id, name, major) ==
    Dict(<< <<"id", Num(id)>>, <<"name", Str(name)>>, <<"tasks", Tasks(major)>> >>)

DEFAULT_DATA ==
    Dict(<< <<"columns", List(<< Column(1, "To Do", <<>>),
                                 Column(2, "In Progress", <<>>),
                                 Column(3, "Done", <<>>) >>)>>,
            <<"nextColumnId", Num(4)>>,
            <<"nextTaskId", Num(1)>>,
            <<"dropdownStates", Dict(<<>>)>> >>)

\* a board a client built: one column holding task n
UserDoc(n) ==
    Dict(<< <<"columns", List(<< Column(1, "X", <<Dict(<< <<"id", Num(n)>> >>)>>) >>)>>,
            <<"nextColumnId", Num(2)>>,
            <<"nextTaskId", Num(n + 1)>>,
            <<"dropdownStates", Dict(<<>>)>> >>)

UserDocs == {UserDoc(n) : n \in 1..MaxDocs}

\* a JSON object without the `columns` key
FooDoc == Dict(<< <<"foo", Num(1)>> >>)

(***************************************************************************)
(* The two backends.  A file is absent or holds a text; the remote store   *)
(* answers over HTTP and names a stored text by its blob sha, a hash of    *)
(* the text alone.                                                         *)
(***************************************************************************)
NoFile == <<"nofile">>
File(t) == <<"file", t>>
Text(f) == f[2]

BlobSha(t) == <<"sha", t>>

\* what a write that fails after open(..., 'w') leaves behind: the file is
\* truncated and the buffered text never reaches it
Truncated(t) == SubSeq(t, 1, 0)

\* requests.get on the contents URL: up = FALSE stands for a network error,
\* a timeout or any status other than 200 and 404
HttpGet(rem, up) ==
    IF ~up THEN [status |-> 503, content |-> None, sha |-> None]
    ELSE IF rem = NoFile THEN [status |-> 404, content |-> None, sha |-> None]
    ELSE [status |-> 200, content |-> B64Encode(Text(rem)), sha |-> BlobSha(Text(rem))]

\* a store without compare-and-swap: every PUT that reaches it is accepted
HttpPut_unconditional(rem, content, sha, up) ==
    IF ~up THEN [status |-> 503, remote |-> rem]
    ELSE [status |-> IF rem = NoFile THEN 201 ELSE 200,
          remote |-> File(B64Decode(content))]

\* requests.put on the contents URL: the store creates the file when it is
\* absent and no sha is given, replaces it when the sha given names the
\* stored blob, and rejects every other write
HttpPut(rem, content, sha, up) ==
    IF ~up THEN [status |-> 503, remote |-> rem]
    ELSE IF rem = NoFile
         THEN IF sha = None
              THEN [status |-> 201, remote |-> File(B64Decode(content))]
              ELSE [status |-> 422, remote |-> rem]
    ELSE IF sha = None THEN [status |-> 422, remote |-> rem]
    ELSE IF sha = BlobSha(Text(rem))
         THEN [status |-> 200, remote |-> File(B64Decode(content))]
    ELSE [status |-> 409, remote |-> rem]

(***************************************************************************)
(* Storage functions of app.py.  Each takes the state it reads and the     *)
(* outcome of the I/O it performs, and returns its result with the state   *)
(* it leaves.                                                              *)
(***************************************************************************)
\* the (None, None) of get_github_file; status is the HTTP status met (0: no
\* request made)
FetchFailed(status) == [ok |-> FALSE, data |-> None, sha |-> None, status |-> status]

\* lines 51-60 of get_github_file, on the response and its decoded content
Fetched(response, content) ==
    IF response.status = 200 /\ content.ok
    THEN [ok |-> TRUE, data |-> content.v, sha |-> response.sha, status |-> 200]
    ELSE FetchFailed(response.status)

Decoded(response) ==
    IF response.status = 200 THEN Loads(B64Decode(response.content)) ELSE ParseError

\* get_github_file: (data, sha); ok tells the return of line 54 from the
\* (None, None) of every other path
get_github_file(cfg, rem, up) ==
    IF ~cfg THEN FetchFailed(0)
    ELSE Fetched(HttpGet(rem, up), Decoded(HttpGet(rem, up)))

PutResult(response) ==
    [ok |-> response.status \in {200, 201},
     status |-> response.status,
     remote |-> response.remote]

\* save_to_github: the PUT carries the sha only when it is truthy
save_to_github(cfg, rem, data, sha, up) ==
    IF ~cfg THEN [ok |-> FALSE, status |-> 0, remote |-> rem]
    ELSE PutResult(HttpPut(rem, B64Encode(Dumps(data)), sha, up))

\* save_to_local: open(..., 'w') then json.dump; an IOError from open leaves
\* the file as it was ("open_fail"), one from the write leaves it truncated
\* ("truncated")
save_to_local(data, file, lw) ==
    CASE lw = "ok" -> [ok |-> TRUE, file |-> File(Dumps(data))]
      [] lw = "open_fail" -> [ok |-> FALSE, file |-> file]
      [] lw = "truncated" -> [ok |-> FALSE, file |-> File(Truncated(Dumps(data)))]

\* ReadLocal with the test of line 110 inverted: a document that has
\* `columns` is taken for an invalid one
ReadLocal_inverted(file, lr, parsed) ==
    [raised |-> FALSE,
     data |-> IF parsed.ok /\ Truthy(parsed.v) /\ ~HasKey(parsed.v, "columns")
              THEN parsed.v ELSE DEFAULT_DATA,
     file |-> file, lw |-> "skipped", lr |-> lr, trace |-> <<"local_read">>]

\* load_from_local initialising an absent file with an empty object instead
\* of DEFAULT_DATA
load_from_local_empty_init(file, lw, lr) ==
    [raised |-> FALSE, data |-> DEFAULT_DATA,
     file |-> IF file = NoFile THEN save_to_local(Dict(<<>>), file, lw).file ELSE file,
     lw |-> IF file = NoFile THEN lw ELSE "skipped",
     lr |-> IF file = NoFile THEN "skipped" ELSE lr,
     trace |-> IF file = NoFile THEN <<"local_write">> ELSE <<"local_read">>]

LocalResult(raised, data, file, lw, lr, trace) ==
    [raised |-> raised, data |-> data, file |-> file, lw |-> lw, lr |-> lr,
     trace |-> trace]

\* ReadLocal repairing the file: the default document returned for an
\* unreadable or invalid file is also written to it
ReadLocal_persisting_default(file, lr, parsed) ==
    IF lr = "ioerror" \/ ~parsed.ok \/ ~Truthy(parsed.v) \/ ~HasKey(parsed.v, "columns")
    THEN LocalResult(FALSE, DEFAULT_DATA, File(Dumps(DEFAULT_DATA)), "skipped", lr,
                     <<"local_read">>)
    ELSE LocalResult(FALSE, parsed.v, file, "skipped", lr, <<"local_read">>)

\* lines 107-115 of load_from_local, on the outcome of the read and the
\* parsed text; raised = TRUE when an exception leaves the function (the
\* TypeError of `'columns' not in data`, which the except clause does not
\* name)
ReadLocal(file, lr, parsed) ==
    IF lr = "ioerror" \/ ~parsed.ok
    THEN LocalResult(FALSE, DEFAULT_DATA, file, "skipped", lr, <<"local_read">>)
    ELSE IF ~Truthy(parsed.v)
    THEN LocalResult(FALSE, DEFAULT_DATA, file, "skipped", lr, <<"local_read">>)
    ELSE IF ~SupportsIn(parsed.v)
    THEN LocalResult(TRUE, None, file, "skipped", lr, <<"local_read">>)
    ELSE IF ~ContainsColumns(parsed.v)
    THEN LocalResult(FALSE, DEFAULT_DATA, file, "skipped", lr, <<"local_read">>)
    ELSE LocalResult(FALSE, parsed.v, file, "skipped", lr, <<"local_read">>)

\* load_from_local
load_from_local(file, lw, lr) ==
    IF file = NoFile
    THEN LocalResult(FALSE, DEFAULT_DATA, save_to_local(DEFAULT_DATA, file, lw).file,
                     lw, "skipped", <<"local_write">>)
    ELSE ReadLocal(file, lr, Loads(Text(file)))

FromGithub(g, file) ==
    [raised |-> FALSE, data |-> g.data, sha |-> g.sha, source |-> "github",
     file |-> file, fetched |-> "ok", get_status |-> g.status,
     lw |-> "skipped", lr |-> "skipped", trace |-> <<"remote_get">>]

FromLocal(cfg, g, l) ==
    [raised |-> l.raised, data |-> l.data, sha |-> None, source |-> "local",
     file |-> l.file,
     fetched |-> IF ~cfg THEN "skipped" ELSE IF g.ok THEN "ok" ELSE "fail",
     get_status |-> g.status,
     lw |-> l.lw, lr |-> l.lr,
     trace |-> (IF cfg THEN <<"remote_get">> ELSE <<>>) \o l.trace]

\* lines 131-138 of load_data, on the result g of get_github_file
LoadAfterFetch(cfg, g, file, lw, lr) ==
    IF cfg /\ Truthy(g.data)
    THEN FromGithub(g, file)
    ELSE FromLocal(cfg, g, load_from_local(file, lw, lr))

\* load_data: (data, sha, source)
load_data(cfg, rem, file, up, lw, lr) ==
    LoadAfterFetch(cfg, get_github_file(cfg, rem, up), file, lw, lr)

\* line 156 with `and` for `or`
BothSucceeded(github_success, local_success) == github_success /\ local_success

\* save_data returning github_success alone when a remote is configured
SaveResult_remote_only(cfg, g, l) ==
    [ok |-> IF cfg THEN g.ok ELSE l.ok,
     github_success |-> cfg /\ g.ok,
     local_success |-> l.ok,
     put_status |-> g.status,
     remote |-> g.remote,
     file |-> l.file,
     trace |-> (IF cfg THEN <<"remote_put">> ELSE <<>>) \o <<"local_write">>]

\* save_data sending the PUT a second time when the first one failed
SaveResult_retrying_put(cfg, g, l) ==
    [ok |-> (cfg /\ g.ok) \/ l.ok,
     github_success |-> cfg /\ g.ok,
     local_success |-> l.ok,
     put_status |-> g.status,
     remote |-> g.remote,
     file |-> l.file,
     trace |-> (IF cfg THEN <<"remote_put">> ELSE <<>>)
               \o (IF cfg /\ ~g.ok THEN <<"remote_put">> ELSE <<>>)
               \o <<"local_write">>]

\* line 156 of save_data
EitherSucceeded(github_success, local_success) == github_success \/ local_success

\* save_data, on the results g of save_to_github and l of save_to_local
SaveResult(cfg, g, l) ==
    [ok |-> EitherSucceeded(cfg /\ g.ok, l.ok),
     github_success |-> cfg /\ g.ok,
     local_success |-> l.ok,
     put_status |-> g.status,
     remote |-> g.remote,
     file |-> l.file,
     trace |-> (IF cfg THEN <<"remote_put">> ELSE <<>>) \o <<"local_write">>]

\* save_data writing the local file only as a fallback, when the remote
\* write did not succeed
save_data_local_as_fallback(cfg, rem, file, data, sha, up, lw) ==
    SaveResult(cfg, save_to_github(cfg, rem, data, sha, up),
               IF cfg /\ save_to_github(cfg, rem, data, sha, up).ok
               THEN [ok |-> FALSE, file |-> file]
               ELSE save_to_local(data, file, lw))

\* save_data
save_data(cfg, rem, file, data, sha, up, lw) ==
    SaveResult(cfg, save_to_github(cfg, rem, data, sha, up), save_to_local(data, file, lw))

(***************************************************************************)
(* Request handlers.                                                       *)
(***************************************************************************)
\* a POST body: its text and whether the request declares a JSON content type
NoRequest == [json |-> FALSE, text |-> <<>>]

JsonResult(p) == [raised |-> ~p.ok, v |-> p.v]

\* request.get_json(): None for a body that is not declared JSON (or, with
\* the Flask releases that answer 415 there, an exception: mime415); the
\* parsed value for JSON; werkzeug's BadRequest for a text that does not parse
get_json(req, mime415) ==
    IF ~req.json
    THEN [raised |-> mime415, v |-> None]
    ELSE JsonResult(Loads(req.text))

\* no save_data call was reached
NoWrite == [op |-> "none", data |-> None, ok |-> FALSE,
            github_success |-> FALSE, local_success |-> FALSE]

\* the record of one save_data call: the document, the result, and the two
\* values save_data combines into it
WriteRecord(op, data, s) ==
    [op |-> op, data |-> data, ok |-> s.ok,
     github_success |-> s.github_success, local_success |-> s.local_success]

\* the response of a handler that touched no backend
Answer(status, rem, file) ==
    [status |-> status, remote |-> rem, file |-> file, saved |-> FALSE,
     w |-> NoWrite, sha |-> None, get_status |-> 0, put_status |-> 0,
     lw |-> "skipped", trace |-> <<>>]

\* the answer to a save_data call s made with the result g of
\* get_github_file: 200 or 500
Saved(op, cfg, data, g, s, lw) ==
    [status |-> IF s.ok THEN 200 ELSE 500,
     remote |-> s.remote, file |-> s.file, saved |-> TRUE,
     w |-> WriteRecord(op, data, s),
     sha |-> g.sha, get_status |-> g.status, put_status |-> s.put_status, lw |-> lw,
     trace |-> (IF cfg THEN <<"remote_get">> ELSE <<>>) \o s.trace]

SaveWith(op, cfg, rem, file, data, g, putUp, lw) ==
    Saved(op, cfg, data, g, save_data(cfg, rem, file, data, g.sha, putUp, lw), lw)

\* the part shared by update_data (lines 193-207) and reset_data: read the
\* latest sha, save, answer 200 or 500
save_and_answer(op, cfg, rem, file, data, getUp, putUp, lw) ==
    SaveWith(op, cfg, rem, file, data, get_github_file(cfg, rem, getUp), putUp, lw)

\* update_data without the `if not data` test of line 187
Validated_unchecked(cfg, rem, file, j, getUp, putUp, lw) ==
    IF j.raised \/ ~IsDict(j.v) THEN Answer(500, rem, file)
    ELSE IF HasKey(j.v, "columns") /\ ~Sized(Item(j.v, "columns"))
         THEN Answer(500, rem, file)
    ELSE save_and_answer("update_data", cfg, rem, file, j.v, getUp, putUp, lw)

\* lines 187-210 of update_data, on the result j of get_json: every
\* exception raised inside the try block, the one of get_json included, is
\* answered with 500
Validated(cfg, rem, file, j, getUp, putUp, lw) ==
    IF j.raised THEN Answer(500, rem, file)
    ELSE IF ~Truthy(j.v) THEN Answer(400, rem, file)
    \* data.get of a value that is no dict: AttributeError
    ELSE IF ~IsDict(j.v) THEN Answer(500, rem, file)
    \* len(data.get('columns', [])) of a value without a length: TypeError
    ELSE IF HasKey(j.v, "columns") /\ ~Sized(Item(j.v, "columns"))
         THEN Answer(500, rem, file)
    ELSE save_and_answer("update_data", cfg, rem, file, j.v, getUp, putUp, lw)

\* update_data
update_data(cfg, rem, file, req, mime415, getUp, putUp, lw) ==
    Validated(cfg, rem, file, get_json(req, mime415), getUp, putUp, lw)

\* reset_data
reset_data(cfg, rem, file, getUp, putUp, lw) ==
    save_and_answer("reset_data", cfg, rem, file, DEFAULT_DATA, getUp, putUp, lw)

\* the response to a load r: an exception leaving load_data is answered by
\* Flask with 500
Served(r) ==
    [status |-> IF r.raised THEN 500 ELSE 200, raised |-> r.raised,
     doc |-> r.data, source |-> r.source, fetched |-> r.fetched,
     get_status |-> r.get_status, sha |-> r.sha, lw |-> r.lw, lr |-> r.lr, file |-> r.file, trace |-> r.trace]

\* get_data and backup_data
get_data(cfg, rem, file, up, lw, lr) == Served(load_data(cfg, rem, file, up, lw, lr))

\* test_github: a GET on the repository URL, nothing else
test_github(cfg, up) ==
    IF ~cfg THEN [configured |-> FALSE, connected |-> FALSE, trace |-> <<>>]
    ELSE [configured |-> TRUE, connected |-> up, trace |-> <<"remote_probe">>]

\* the URL map the @app.route decorators build: the (method, path) pairs a
\* view function is registered for
Routes ==
    {<<"GET", "/">>, <<"GET", "/api/data">>, <<"POST", "/api/data">>,
     <<"POST", "/api/reset">>, <<"GET", "/api/backup">>, <<"GET", "/api/test-github">>}

\* the status Flask answers before any view function runs: 404 for a path no
\* view is registered for, 405 for a registered path under another method,
\* 0 when the request goes on to its view function
Dispatch(method, path) ==
    IF <<method, path>> \in Routes THEN 0
    ELSE IF \E r \in Routes : r[2] = path THEN 405
    ELSE 404

(***************************************************************************)
(* The state machine: one action per route, each a whole request.          *)
(***************************************************************************)
LocalWriteOutcomes == {"ok", "open_fail", "truncated"}
LocalReadOutcomes == {"ok", "ioerror"}

\* a text that is no JSON
Garbage == <<P("{")>>

\* documents the remote file holds at start
RemoteInit ==
    {NoFile, File(Garbage)}
    \cup {File(Dumps(d)) : d \in {DEFAULT_DATA, UserDoc(1), FooDoc, Dict(<<>>)}}

\* contents of the local file at start
LocalInit ==
    {NoFile, File(Garbage)}
    \cup {File(Dumps(d)) : d \in {DEFAULT_DATA, UserDoc(1), FooDoc, Num(5)}}

\* bodies a client posts
BodyTexts ==
    {<<>>, Garbage}
    \cup {Dumps(d) : d \in UserDocs \cup {FooDoc, Dict(<<>>), None, Num(5),
                                         Dict(<< <<"columns", None>> >>)}}

Requests ==
    [json : {TRUE}, text : BodyTexts]
    \cup [json : {FALSE}, text : {<<>>, Dumps(UserDoc(1))}]

\* whether update_data reaches its backend calls with this body, so that
\* their outcomes matter
ReachesSave(req) ==
    update_data(FALSE, NoFile, NoFile, req, FALSE, FALSE, FALSE, "ok").saved

\* outcomes to enumerate for a call that may not happen
Outcomes(happens, S, unused) == IF happens THEN S ELSE {unused}

\* the last request: what was asked, what was answered, and what its backend
\* calls met: the document and source of a load, the status of the GET on
\* the contents URL (0: none made) and the sha read, the status of the PUT
\* (0: none made), the outcomes of the local write and of the local read, the
\* calls in order
LastRecord(op, req, status, raised, doc, source, fetched, get_status, sha, put_status, lw, lr, trace) ==
    [op |-> op, req |-> req, status |-> status, raised |-> raised, doc |-> doc,
     source |-> source, fetched |-> fetched, get_status |-> get_status, sha |-> sha,
     put_status |-> put_status, lw |-> lw, lr |-> lr, trace |-> trace]

\* a request that touches no backend
Untouched(op, doc, trace) ==
    LastRecord(op, NoRequest, 200, FALSE, doc, "none", "skipped", 0, None, 0,
               "skipped", "skipped", trace)

\* the clients whose POST /api/data requests may overlap (the server runs
\* each request in a thread of its own)
Clients == {"A", "B"}

\* a request not yet received: pc is the position of its thread in
\* update_data, the other fields its local variables and the outcomes met
Idle ==
    [pc |-> "idle", data |-> None, sha |-> None, get_status |-> 0, early |-> FALSE,
     put_status |-> 0, github_success |-> FALSE, lw |-> "skipped", status |-> 0]

Init ==
    /\ configured \in BOOLEAN
    /\ remote \in (IF configured THEN RemoteInit ELSE {NoFile})
    /\ localFile \in LocalInit
    /\ last = [Untouched("none", None, <<>>) EXCEPT !.status = 0]
    /\ lastWrite = NoWrite
    /\ inflight = [c \in Clients |-> Idle]
    /\ localWriter = "none"

\* GET /
Index ==
    /\ last' = Untouched("index", None, <<>>)
    /\ UNCHANGED <<configured, remote, localFile, lastWrite, inflight, localWriter>>

\* a load answered with r
Loaded(op, r) ==
    /\ localFile' = r.file
    /\ last' = LastRecord(op, NoRequest, r.status, r.raised, r.doc, r.source,
                          r.fetched, r.get_status, r.sha, 0, r.lw, r.lr, r.trace)
    /\ UNCHANGED <<configured, remote, lastWrite, inflight, localWriter>>

Load(op) ==
    \E up \in Outcomes(configured, BOOLEAN, FALSE),
       lw \in Outcomes(localFile = NoFile, LocalWriteOutcomes, "ok"),
       lr \in Outcomes(localFile # NoFile, LocalReadOutcomes, "ok") :
        Loaded(op, get_data(configured, remote, localFile, up, lw, lr))

\* GET /api/data
GetData == Load("get_data")

\* GET /api/backup
BackupData == Load("backup_data")

\* a POST answered with r
Store(op, req, r) ==
    /\ remote' = r.remote
    /\ localFile' = r.file
    /\ last' = LastRecord(op, req, r.status, FALSE, None, "none",
                          "skipped", r.get_status, r.sha, r.put_status, r.lw,
                          "skipped", r.trace)
    /\ lastWrite' = IF r.saved THEN r.w ELSE lastWrite
    /\ UNCHANGED <<configured, inflight, localWriter>>

\* POST /api/data
UpdateData ==
    \E req \in Requests :
    \E mime415 \in Outcomes(~req.json, BOOLEAN, FALSE),
       getUp \in Outcomes(ReachesSave(req) /\ configured, BOOLEAN, FALSE),
       putUp \in Outcomes(ReachesSave(req) /\ configured, BOOLEAN, FALSE),
       lw \in Outcomes(ReachesSave(req), LocalWriteOutcomes, "ok") :
        Store("update_data", req,
              update_data(configured, remote, localFile, req, mime415, getUp, putUp, lw))

\* POST /api/reset
ResetData ==
    \E getUp \in Outcomes(configured, BOOLEAN, FALSE),
       putUp \in Outcomes(configured, BOOLEAN, FALSE),
       lw \in LocalWriteOutcomes :
        Store("reset_data", NoRequest,
              reset_data(configured, remote, localFile, getUp, putUp, lw))

\* the probe answered with r
Probed(r) ==
    /\ last' = Untouched("test_github",
                         Dict(<< <<"configured", Bool(r.configured)>>,
                                 <<"connected", Bool(r.connected)>> >>),
                         r.trace)
    /\ UNCHANGED <<configured, remote, localFile, lastWrite, inflight, localWriter>>

\* GET /api/test-github
TestGithub ==
    \E up \in Outcomes(configured, BOOLEAN, FALSE) : Probed(test_github(configured, up))

\* GET /api/history: no view function is registered for it, the request ends
\* in Flask's dispatch and touches no backend
GetHistory ==
    /\ Dispatch("GET", "/api/history") # 0
    /\ last' = [Untouched("history", None, <<>>)
                   EXCEPT !.status = Dispatch("GET", "/api/history")]
    /\ UNCHANGED <<configured, remote, localFile, lastWrite, inflight, localWriter>>

Next ==
    \/ Index
    \/ GetData
    \/ BackupData
    \/ UpdateData
    \/ ResetData
    \/ TestGithub
    \/ GetHistory

Spec == Init /\ [][Next]_vars

(***************************************************************************)
(* Overlapping requests.  Two POST /api/data requests run update_data in   *)
(* threads of their own; each backend call is one step, and the steps of   *)
(* the two requests interleave in every order.                             *)
(***************************************************************************)
\* bodies the two clients post
OverlapBodies == {<<>>} \cup {Dumps(d) : d \in UserDocs}

OverlapInit ==
    /\ configured = TRUE
    /\ remote \in RemoteInit
    /\ localFile \in LocalInit
    /\ last = [Untouched("none", None, <<>>) EXCEPT !.status = 0]
    /\ lastWrite = NoWrite
    /\ inflight = [c \in Clients |-> Idle]
    /\ localWriter = "none"

\* no request has made its PUT yet
NoPutYet(reqs) == \A c \in Clients : reqs[c].put_status = 0

\* lines 185-189 answering without a backend call
Rejected(r) == [Idle EXCEPT !.pc = "done", !.status = r.status]

\* line 196: the sha of get_github_file kept in the local variable `sha`;
\* early tells that no PUT had been made when it was read
TokenRead(data, g, early) ==
    [Idle EXCEPT !.pc = "read", !.data = data, !.sha = g.sha,
                 !.get_status = g.status, !.early = early]

\* lines 185-196 of update_data for client c: the body is read and checked,
\* then the sha of the remote document is read
ReadToken(c) ==
    /\ inflight[c].pc = "idle"
    /\ \E text \in OverlapBodies :
       \E up \in Outcomes(ReachesSave([json |-> TRUE, text |-> text]), BOOLEAN, FALSE) :
           inflight' =
               [inflight EXCEPT ![c] =
                   IF ReachesSave([json |-> TRUE, text |-> text])
                   THEN TokenRead(Loads(text).v, get_github_file(configured, remote, up),
                                  NoPutYet(inflight))
                   ELSE Rejected(update_data(configured, remote, localFile,
                                             [json |-> TRUE, text |-> text],
                                             FALSE, FALSE, FALSE, "ok"))]
    /\ UNCHANGED <<configured, remote, localFile, last, lastWrite, localWriter>>

\* the PUT of client c answered with g
AfterPut(c, g) ==
    /\ remote' = g.remote
    /\ inflight' = [inflight EXCEPT ![c].pc = "put", ![c].put_status = g.status,
                                    ![c].github_success = g.ok]
    /\ UNCHANGED <<configured, localFile, last, lastWrite, localWriter>>

\* lines 145-151 of save_data for client c: save_to_github with the sha read
PutRemote(c) ==
    /\ inflight[c].pc = "read"
    /\ \E up \in BOOLEAN :
           AfterPut(c, save_to_github(configured, remote, inflight[c].data,
                                      inflight[c].sha, up))

\* the local write of client c ended with l: save_data returns and
\* update_data answers 200 or 500
AfterLocalWrite(c, l, lw) ==
    /\ localFile' = l.file
    /\ localWriter' = c
    /\ inflight' = [inflight EXCEPT
                       ![c].pc = "done", ![c].lw = lw,
                       ![c].status = IF EitherSucceeded(inflight[c].github_success, l.ok)
                                     THEN 200 ELSE 500]
    /\ UNCHANGED <<configured, remote, last, lastWrite>>

\* lines 154-156 of save_data and 199-207 of update_data for client c
WriteLocal(c) ==
    /\ inflight[c].pc = "put"
    /\ \E lw \in LocalWriteOutcomes :
           AfterLocalWrite(c, save_to_local(inflight[c].data, localFile, lw), lw)

OverlapNext == \E c \in Clients : ReadToken(c) \/ PutRemote(c) \/ WriteLocal(c)

SpecOverlap == OverlapInit /\ [][OverlapNext]_vars

(***************************************************************************)
(* Properties.  `last` is the latest request and `lastWrite` the latest    *)
(* save_data call: when last is a load, it came after that save and no     *)
(* save_data call lies between the two.                                    *)
(***************************************************************************)
LoadOps == {"get_data", "backup_data"}
WriteOps == {"update_data", "reset_data"}

\* the file f exists and its text parses to the document d
HoldsDoc(f, d) == f # NoFile /\ Loads(Text(f)).ok /\ Loads(Text(f)).v = d

\* the latest request was a POST that reached save_data
SaveReached == last.op \in WriteOps /\ last.trace # <<>>

\* the PUT of the latest request was answered 200 or 201
PutAccepted == last.put_status \in {200, 201}

\* a load in local-only mode after a save whose local write succeeded, the
\* read of the file succeeding too
LocalRoundTrip ==
    /\ ~configured
    /\ last.op \in LoadOps
    /\ lastWrite.op \in WriteOps
    /\ lastWrite.local_success
    /\ last.lr = "ok"

\* C1 as stated: in local-only mode with local I/O succeeding, a load after
\* save_data(doc) returns doc, for every doc POST /api/data accepts.
C1_RoundTripEveryAcceptedDoc ==
    LocalRoundTrip => last.doc = lastWrite.data

\* C1 amended: in local-only mode with local reads and writes succeeding, a
\* load after save_data(doc) returns doc, for every accepted doc that has a
\* `columns` key.
C1_RoundTripDocWithColumns ==
    (LocalRoundTrip /\ HasKey(lastWrite.data, "columns"))
        => (last.status = 200 /\ last.doc = lastWrite.data)

C1_Witness ==
    /\ LocalRoundTrip
    /\ lastWrite.op = "update_data"
    /\ lastWrite.data = UserDoc(1)
    /\ last.op = "get_data"
    /\ last.doc = UserDoc(1)

\* C2: after a POST /api/reset that reports success, the document the next
\* GET /api/data answers (no save in between) is the default document,
\* whatever was stored and whatever the remote's availability during the two
\* requests.
C2_ResetThenGetIsDefault ==
    (/\ last.op = "get_data"
     /\ last.status = 200
     /\ lastWrite.op = "reset_data"
     /\ lastWrite.ok)
        => last.doc = DEFAULT_DATA

\* the latest request saved with the remote write failing and the local
\* write succeeding
SaveFellBack == configured /\ SaveReached /\ ~PutAccepted /\ last.lw = "ok"

\* a load whose remote fetch failed, after a save whose remote write failed
\* and whose local write succeeded, the read of the file succeeding
FallbackLoad ==
    /\ configured
    /\ last.op \in LoadOps
    /\ last.fetched = "fail"
    /\ last.lr = "ok"
    /\ lastWrite.op \in WriteOps
    /\ ~lastWrite.github_success
    /\ lastWrite.local_success

\* C3 as stated: a save whose remote write fails and whose local write
\* succeeds reports success, and every later load whose remote fetch fails
\* returns the saved document.
C3_FallbackReturnsEverySavedDoc ==
    /\ SaveFellBack => (lastWrite.ok /\ last.status = 200)
    /\ FallbackLoad => last.doc = lastWrite.data

\* C3 amended: a save whose remote write fails and whose local write
\* succeeds reports success, and every later load whose remote fetch fails
\* and whose local read succeeds returns the saved document when that
\* document has a `columns` key.
C3_FallbackReturnsDocWithColumns ==
    /\ SaveFellBack => (lastWrite.ok /\ last.status = 200)
    /\ (FallbackLoad /\ HasKey(lastWrite.data, "columns"))
           => (last.status = 200 /\ last.doc = lastWrite.data)

C3_Witness ==
    /\ FallbackLoad
    /\ lastWrite.ok
    /\ lastWrite.data = UserDoc(1)
    /\ last.doc = UserDoc(1)
    /\ remote # NoFile
    /\ ~HoldsDoc(remote, UserDoc(1))

\* C4: every document load_data returns, from whichever backend, has a
\* `columns` key.
C4_LoadedDocHasColumns ==
    (last.op \in LoadOps /\ last.status = 200) => HasKey(last.doc, "columns")

\* C5: POST /api/data answers 400 whenever its body is empty or is not valid
\* JSON.
C5_BadBodyAnswered400 ==
    (last.op = "update_data"
     /\ (last.req.text = <<>> \/ ~Loads(last.req.text).ok))
        => last.status = 400

\* a body that is missing (not declared JSON), empty, not valid JSON, or an
\* empty JSON value
BadBody(req) ==
    \/ ~req.json
    \/ req.text = <<>>
    \/ ~Loads(req.text).ok
    \/ ~Truthy(Loads(req.text).v)

\* C6: a POST /api/data with a missing, empty or invalid body is rejected
\* and writes nothing: the remote document and the local file are after the
\* request what they were before it.
C6_RejectedPostWritesNothing ==
    [][(last'.op = "update_data" /\ BadBody(last'.req))
          => /\ last'.status \in {400, 500}
             /\ remote' = remote
             /\ localFile' = localFile
             /\ lastWrite' = lastWrite]_vars

C6_Witness ==
    /\ last.op = "update_data"
    /\ BadBody(last.req)
    /\ last.status = 400
    /\ lastWrite.op = "update_data"
    /\ HoldsDoc(localFile, UserDoc(1))

\* C7: GET /api/data always answers 200 with a document and never raises.
C7_GetAlwaysAnswers200 ==
    last.op = "get_data" => (last.status = 200 /\ ~last.raised)

\* the text of the local file does not parse, or parses to a value without
\* a `columns` key
CorruptLocal(f) ==
    f # NoFile /\ (~Loads(Text(f)).ok \/ ~HasKey(Loads(Text(f)).v, "columns"))

\* C8: with the remote unconfigured or failing, a load that finds the local
\* file unparsable or without a `columns` key returns the default document
\* and does not raise.  (A load leaves an existing file as it is, so the
\* file read is the file of the state.)
C8_CorruptLocalGivesDefault ==
    (/\ last.op \in LoadOps
     /\ last.fetched \in {"skipped", "fail"}
     /\ last.lr # "skipped"
     /\ CorruptLocal(localFile))
        => (~last.raised /\ last.doc = DEFAULT_DATA)

\* the default document, spelled out: three columns named To Do, In
\* Progress, Done with ids 1..3 and empty task lists, counters 4 and 1, no
\* dropdown state
IsDefaultDocument(d) ==
    /\ IsDict(d)
    /\ Keys(d) = {"columns", "nextColumnId", "nextTaskId", "dropdownStates"}
    /\ Item(d, "nextColumnId") = Num(4)
    /\ Item(d, "nextTaskId") = Num(1)
    /\ Item(d, "dropdownStates") = Dict(<<>>)
    /\ Item(d, "columns")[1] = "list"
    /\ Len(Item(d, "columns")[2]) = 3
    /\ \A i \in 1..3 :
         LET c == Item(d, "columns")[2][i] IN
         /\ Item(c, "id") = Num(i)
         /\ Item(c, "name") = Str(<<"To Do", "In Progress", "Done">>[i])
         /\ Item(Item(c, "tasks"), "major") = List(<<>>)
         /\ Item(Item(c, "tasks"), "minor") = List(<<>>)

\* C9 as stated: in local-only mode with no local file, a load returns the
\* default document and leaves the local file holding it.
C9_AbsentFileInitialised ==
    [][(~configured /\ localFile = NoFile /\ last'.op \in LoadOps)
          => /\ last'.status = 200
             /\ IsDefaultDocument(last'.doc)
             /\ HoldsDoc(localFile', last'.doc)]_vars

\* C9 amended: in local-only mode with no local file, a load returns the
\* default document, and leaves the local file holding it when the write of
\* that file succeeds.
C9_AbsentFileInitialisedIfWritable ==
    [][(~configured /\ localFile = NoFile /\ last'.op \in LoadOps)
          => /\ last'.status = 200
             /\ IsDefaultDocument(last'.doc)
             /\ last'.lw = "ok" => HoldsDoc(localFile', last'.doc)]_vars

C9_Witness ==
    /\ ~configured
    /\ last.op = "get_data"
    /\ last.trace = <<"local_write">>
    /\ last.lw = "ok"
    /\ IsDefaultDocument(last.doc)
    /\ HoldsDoc(localFile, DEFAULT_DATA)

\* C10: save_data returns success exactly when a backend write succeeded:
\* the PUT was answered 200 or 201, or the local write went through; in
\* local-only mode, exactly when the local write went through.  A success
\* leaves the document in a backend.
C10_SaveSucceedsIffAWriteDid ==
    SaveReached =>
        /\ lastWrite.ok <=> (PutAccepted \/ last.lw = "ok")
        /\ ~configured => (last.put_status = 0 /\ (lastWrite.ok <=> last.lw = "ok"))
        /\ lastWrite.ok =>
               (HoldsDoc(remote, lastWrite.data) \/ HoldsDoc(localFile, lastWrite.data))

C10_Witness ==
    /\ configured
    /\ SaveReached
    /\ last.put_status = 503
    /\ last.lw = "truncated"
    /\ ~lastWrite.ok
    /\ last.status = 500

\* a POST body that is declared JSON, not empty, and parses
ValidJsonBody(req) == req.json /\ req.text # <<>> /\ Loads(req.text).ok

\* C11: a POST /api/data with a non-empty valid JSON body, and a POST
\* /api/reset, is answered 500 only when every configured backend write
\* failed; when the local write succeeds the answer is no error, whatever
\* the remote write did.
C11_ErrorOnlyWhenEveryWriteFailed ==
    (last.op = "reset_data" \/ (last.op = "update_data" /\ ValidJsonBody(last.req)))
        => /\ last.status = 500 => (SaveReached /\ ~PutAccepted /\ last.lw # "ok")
           /\ (SaveReached /\ last.lw = "ok") => last.status = 200

\* C12: every save_data call attempts the local write, whether the remote
\* write succeeded, failed or was not attempted, and a local write that does
\* not fail leaves the local file holding exactly the document saved.
C12_LocalWriteAlwaysAttempted ==
    SaveReached =>
        /\ last.lw \in LocalWriteOutcomes
        /\ \E i \in DOMAIN last.trace : last.trace[i] = "local_write"
        /\ last.lw = "ok" =>
               /\ localFile = File(Dumps(lastWrite.data))
               /\ HoldsDoc(localFile, lastWrite.data)

C12_Witness ==
    /\ configured
    /\ SaveReached
    /\ PutAccepted
    /\ last.lw = "ok"
    /\ lastWrite.data = UserDoc(2)
    /\ HoldsDoc(localFile, UserDoc(2))
    /\ HoldsDoc(remote, UserDoc(2))

\* C13: a GET /api/history made when no remote backend is configured is
\* answered with status 500 (a configuration error), never with an empty
\* list and never with any other status.
C13_HistoryUnconfiguredAnswers500 ==
    (last.op = "history" /\ ~configured)
        => (last.status = 500 /\ last.doc # List(<<>>))

ReadOps == {"index", "test_github", "get_data", "backup_data"}

\* C14: GET /, GET /api/test-github, GET /api/data and GET /api/backup never
\* write to the remote store and leave an existing local file as it is,
\* unparsable or without `columns` included; the one write a read performs
\* is the creation of an absent local file from the default document, by
\* the two loads only.
C14_ReadsChangeNoStoredState ==
    [][last'.op \in ReadOps
          => /\ remote' = remote
             /\ lastWrite' = lastWrite
             /\ \A i \in DOMAIN last'.trace : last'.trace[i] # "remote_put"
             /\ localFile # NoFile => localFile' = localFile
             /\ localFile = NoFile =>
                    \/ localFile' = NoFile
                    \/ /\ last'.op \in LoadOps
                       /\ localFile' = save_to_local(DEFAULT_DATA, NoFile, last'.lw).file
             /\ last'.op \notin LoadOps => localFile' = localFile]_vars

C14_Witness ==
    /\ last.op = "get_data"
    /\ last.lr = "ok"
    /\ last.doc = DEFAULT_DATA
    /\ localFile = File(Garbage)

\* the latest request was a POST that reached save_data with a remote
\* configured, the remote answering both its GET and its PUT (no network
\* error, no 5xx) and the local write going through
SavedWithBothBackendsUp ==
    /\ configured
    /\ SaveReached
    /\ last.get_status \in {200, 404}
    /\ last.put_status # 503
    /\ last.lw = "ok"

\* C15: with a remote configured and both backends reachable and writable,
\* after every POST /api/data or POST /api/reset that reports success the
\* remote document and the local file hold the same document, the one just
\* written, whatever the remote held before.
C15_BackendsAgreeAfterSave ==
    (SavedWithBothBackendsUp /\ last.status = 200)
        => /\ HoldsDoc(remote, lastWrite.data)
           /\ HoldsDoc(localFile, lastWrite.data)

\* C16: in POST /api/data and POST /api/reset with a remote configured, the
\* PUT carries the sha of the remote document as read in the same request
\* whenever that document exists, and carries no sha only when it does not
\* exist.  (Stated for the requests whose GET the remote answered.)
C16_WriteCarriesTokenOfExistingDoc ==
    [][(/\ configured
        /\ last'.op \in WriteOps
        /\ last'.put_status # 0
        /\ last'.get_status \in {200, 404})
          => /\ remote # NoFile => last'.sha = BlobSha(Text(remote))
             /\ last'.sha = None => remote = NoFile]_vars

\* both requests reached save_data, each read the sha before any PUT was
\* made, the remote answered both reads and the two read the same sha, and
\* both local writes went through
SameTokenRace ==
    /\ \A c \in Clients :
         /\ inflight[c].pc = "done"
         /\ inflight[c].put_status # 0
         /\ inflight[c].early
         /\ inflight[c].get_status \in {200, 404}
         /\ inflight[c].lw = "ok"
    /\ \A c, d \in Clients : inflight[c].sha = inflight[d].sha

\* the number of the two PUTs the remote store accepted
AcceptedPuts == Cardinality({c \in Clients : inflight[c].github_success})

C18_FetchedDocIsReturned ==
    (configured /\ last.op \in LoadOps) =>
        /\ last.fetched = "ok" =>
               /\ last.source = "github"
               /\ HoldsDoc(remote, last.doc)
               /\ last.sha = BlobSha(Text(remote))
        /\ last.fetched = "fail" => (last.source = "local" /\ last.sha = None)
        /\ last.source = "local" => last.fetched = "fail"

\* the backend calls a handler makes: the GET and the PUT on the contents
\* URL, the read and the write of the local file, the GET on the repository
BackendCalls == {"remote_get", "remote_put", "local_read", "local_write", "remote_probe"}

\* how many times the call x occurs in the trace t
Count(t, x) == Cardinality({i \in DOMAIN t : t[i] = x})

\* the calls the trace t holds
Called(t) == {t[i] : i \in DOMAIN t}

\* C19: within one request every backend call is made at most once: a GET
\* makes at most one remote fetch and at most one local access, a POST at
\* most one read of the sha, one PUT and one local write; a call that failed
\* is not made again.
C19_EachBackendCallAtMostOnce ==
    /\ \A x \in BackendCalls : Count(last.trace, x) <= 1
    /\ Called(last.trace) \subseteq BackendCalls
    /\ last.op \in LoadOps =>
           /\ Called(last.trace) \subseteq {"remote_get", "local_read", "local_write"}
           /\ Len(last.trace) <= 2
    /\ last.op \in WriteOps =>
           Called(last.trace) \subseteq {"remote_get", "remote_put", "local_write"}

C19_Witness ==
    /\ last.op = "update_data"
    /\ last.get_status = 503
    /\ last.put_status = 503
    /\ last.lw = "open_fail"
    /\ last.status = 500
    /\ last.trace = <<"remote_get", "remote_put", "local_write">>

\* C20: after a POST /api/data doc that reports success, the next
\* GET /api/data (no save in between) answers doc, also when the remote write
\* of the POST failed and the remote is reachable again at the GET.  (Stated
\* for that case: the PUT failed and the local write went through, the
\* remote answers the GET, no local read fails, doc has a `columns` key.)
C20_GetAfterPostReturnsPosted ==
    (/\ configured
     /\ last.op = "get_data"
     /\ last.get_status \in {200, 404}
     /\ last.lr # "ioerror"
     /\ lastWrite.op = "update_data"
     /\ lastWrite.ok
     /\ ~lastWrite.github_success
     /\ lastWrite.local_success
     /\ HasKey(lastWrite.data, "columns"))
        => (last.status = 200 /\ last.doc = lastWrite.data)

====
